---------------------------- MODULE Spec2Model ----------------------------
(***************************************************************************)
(* Model of histocartography/preprocessing/superpixel.py:                  *)
(*   MergedSuperpixelExtractor._merge_superpixels (tissue filter, region   *)
(*   adjacency graph, hierarchical merge, relabelling),                    *)
(*   ColorMergedSuperpixelExtractor (_generate_graph, _weighting_function, *)
(*   _merging_function, _color_features_per_channel) and                   *)
(*   MergedSuperpixelExtractor.process_and_save (the on-disk cache).       *)
(*                                                                         *)
(* Label maps and images are flattened in raster (C) order: pixel i of a   *)
(* map of width w is row (i-1) \div w, column (i-1) % w.  Real numbers are *)
(* fixed-point integers with unit Scale; NaN is kept as its own value      *)
(* because every comparison with it is false, as in IEEE arithmetic.       *)
(***************************************************************************)
EXTENDS Integers, Sequences, FiniteSets, TLC

VARIABLES
    \* ---- inputs of _merge_superpixels
    input_image,          \* Seq of <<r, g, b>>
    initial_superpixels,  \* Seq of labels >= 1 (output of slic, + 1)
    tissue_mask,          \* Seq of 0/1, or None
    threshold,            \* self.threshold (fixed point)
    connectivity,         \* self.connectivity
    \* ---- locals of _merge_superpixels / merge_hierarchical
    pc,                   \* position in _merge_superpixels
    superpixels,          \* initial_superpixels after the tissue filter
    nodes,                \* g.nodes in insertion order
    adj,                  \* g.adj: node -> neighbours in insertion order
    attrs,                \* g.nodes[n]: labels, N, x, y, mean, r, g, b
    weights,              \* g[u][v]["weight"], keyed by <<min, max>>
    edge_heap,            \* heap list of [wt, n1, n2, valid]
    merged_superpixels,   \* the returned label map
    merges,               \* history: the merges performed, in order
    \* ---- process_and_save: the files of one output directory and callers
    h5,                   \* name -> state and datasets of <name>.h5
    joblib_file,          \* name -> whether <name>.joblib exists
    caller,               \* process -> position, arguments, locals, outcome
    saved,                \* history: name -> what completed calls stored
    \* ---- process: an extractor and one call of its process method
    config,               \* the attributes __init__ stored, None before it
    proc,                 \* position, argument shape, locals and outcome
    \* ---- _upsample and _downsample applied to a label map
    scale                 \* position, label map, shapes, factor and result

mergeVars == <<input_image, initial_superpixels, tissue_mask, threshold,
               connectivity, pc, superpixels, nodes, adj, attrs, weights,
               edge_heap, merged_superpixels, merges>>
cacheVars == <<h5, joblib_file, caller, saved>>
processVars == <<config, proc, scale>>
vars == <<mergeVars, cacheVars, processVars>>

None == <<>>

-----------------------------------------------------------------------------
(* Bounds of the model *)

Height == 2
Width == 3
MaxLabels == 3
StripLen == 11
MaxSide == 2       \* sides of the arrays that are resized
MaxFactor == 3     \* downsampling factors
ScaleLabels == 2   \* labels of the arrays that are resized

-----------------------------------------------------------------------------
(* Fixed-point arithmetic standing for numpy float64 *)

Scale == 10 * 100
NaN == 0 - 1

RECURSIVE ISqrtB(_, _, _)
ISqrtB(n, lo, hi) ==
    IF lo >= hi THEN lo
    ELSE LET mid == (lo + hi + 1) \div 2
         IN  IF mid * mid <= n THEN ISqrtB(n, mid, hi) ELSE ISqrtB(n, lo, mid - 1)

ISqrt(n) == ISqrtB(n, 0, 46340)

RECURSIVE SumSeq(_)
SumSeq(s) == IF s = <<>> THEN 0 ELSE Head(s) + SumSeq(Tail(s))

SumSq(v) == SumSeq([i \in DOMAIN v |-> v[i] * v[i]])

HasNaN(v) == \E i \in DOMAIN v : v[i] = NaN

\* np.linalg.norm of a fixed-point vector
Norm(v) == IF HasNaN(v) THEN NaN ELSE ISqrt(SumSq(v))

\* np.linalg.norm(u - v)
DiffNorm(u, v) ==
    IF HasNaN(u) \/ HasNaN(v) THEN NaN
    ELSE ISqrt(SumSq([i \in DOMAIN u |-> u[i] - v[i]]))

\* F(x) with x evaluated once, before F is applied (the accumulator of a loop)
Eager(x, F(_)) == CHOOSE r \in {F(v) : v \in {x}} : TRUE

\* elementwise v / norm for a fixed-point scalar; 0/0 is nan (numpy warns, goes on)
VecDiv(v, norm) ==
    Eager(norm, LAMBDA d :
        IF d = NaN \/ d = 0 THEN [i \in DOMAIN v |-> NaN]
        ELSE [i \in DOMAIN v |-> (v[i] * Scale) \div d])

\* a <= b on floats
FLe(a, b) == a # NaN /\ b # NaN /\ a <= b

\* a < b on floats
FLt(a, b) == a # NaN /\ b # NaN /\ a < b

-----------------------------------------------------------------------------
(* Label maps *)

Values(s) == {s[i] : i \in DOMAIN s}

Count(s, v) == Cardinality({i \in DOMAIN s : s[i] = v})

RECURSIVE SortedSeq(_)
SortedSeq(S) ==
    IF S = {} THEN <<>>
    ELSE LET m == CHOOSE x \in S : \A y \in S : x <= y
         IN  <<m>> \o SortedSeq(S \ {m})

MaxOf(S) == CHOOSE x \in S : \A y \in S : y <= x

IndexOf(s, v) == CHOOSE i \in DOMAIN s : s[i] = v

Row(i, w) == (i - 1) \div w
Col(i, w) == (i - 1) % w
Pix(r, c, w) == r * w + c + 1

\* slic (enforce_connectivity, the default) numbers its segments in raster
\* order of their first pixel, without gaps
ScanOrdered(s) ==
    /\ s[1] = 1
    /\ \A i \in 2..Len(s) :
          s[i] <= MaxOf({s[j] : j \in 1..(i - 1)}) + 1

FourNeighbours(i, h, w) ==
    {j \in 1..(h * w) :
        \/ Row(j, w) = Row(i, w) /\ (Col(j, w) - Col(i, w)) \in {0 - 1, 1}
        \/ Col(j, w) = Col(i, w) /\ (Row(j, w) - Row(i, w)) \in {0 - 1, 1}}

RECURSIVE Grow(_, _, _, _)
Grow(reached, region, h, w) ==
    LET more == {j \in region \ reached :
                    \E i \in reached : j \in FourNeighbours(i, h, w)}
    IN  IF more = {} THEN reached ELSE Grow(reached \cup more, region, h, w)

\* ... and every segment is 4-connected
SegmentsConnected(s, h, w) ==
    \A l \in Values(s) :
        LET region == {i \in DOMAIN s : s[i] = l}
            first == CHOOSE i \in region : \A j \in region : i <= j
        IN  Grow({first}, region, h, w) = region

-----------------------------------------------------------------------------
(* Tissue filter: _merge_superpixels, lines 223-241 *)

\* ratio > 0.1
RatioAccepted_strict(masked, total) == 10 * masked > total

\* ratio >= 0.1, with ratio = masked / total on two pixel counts
RatioAccepted(masked, total) == 10 * masked >= total

\* tissue_mask * initial_superpixels
MaskedProduct(mask, labels) == [p \in DOMAIN labels |-> mask[p] * labels[p]]

\* the loop of lines 232-239 from index i on; ids are the sorted unique labels
RECURSIVE FilterLoop(_, _, _, _, _)
FilterLoop(i, ctr, superpixels0, labels, mask) ==
    LET ids_initial == SortedSeq(Values(labels))
        masked == MaskedProduct(mask, labels)
    IN  Eager(superpixels0, LAMBDA out :
          IF i > Len(ids_initial) THEN out
          ELSE LET id == ids_initial[i]
               IN  IF /\ id \in Values(masked)
                      /\ RatioAccepted(Count(masked, id), Count(labels, id))
                   THEN FilterLoop(i + 1, ctr + 1,
                                   [p \in DOMAIN labels |->
                                       IF labels[p] = id THEN ctr ELSE out[p]],
                                   labels, mask)
                   ELSE FilterLoop(i + 1, ctr, out, labels, mask))

TissueFilter(labels, mask) ==
    IF mask = None THEN labels
    ELSE FilterLoop(1, 1, [p \in DOMAIN labels |-> 0], labels, mask)

-----------------------------------------------------------------------------
(* Colour statistics of a node *)

w_hist == 5   \* in tenths
w_mean == 5   \* in tenths

\* np.arange(0, 257, 64)
BinEdges == <<0, 64, 128, 192, 256>>

\* np.histogram(img_ch, bins=BinEdges): half-open bins, the last one closed
color_features_per_channel(img_ch) ==
    [k \in 1..(Len(BinEdges) - 1) |->
        Cardinality({i \in DOMAIN img_ch :
            /\ BinEdges[k] <= img_ch[i]
            /\ \/ img_ch[i] < BinEdges[k + 1]
               \/ k = Len(BinEdges) - 1 /\ img_ch[i] = BinEdges[k + 1]})]

Channel(y, c) == [i \in DOMAIN y |-> y[i][c]]

\* an integer vector as fixed point
Fixed(v) == [i \in DOMAIN v |-> v[i] * Scale]

\* x / N, then mean / np.linalg.norm(mean)   (lines 418-419, 461-464)
NormalizedMean(x, N) ==
    Eager([i \in DOMAIN x |-> (x[i] * 100) \div N], LAMBDA mean :
        VecDiv(mean, Norm(mean)))

\* lines 422-428 and 469-487: r is normalised by its own norm; g and b are
\* r divided by the norm of the g and of the b histogram
Histograms(y) ==
    LET hr == Fixed(color_features_per_channel(Channel(y, 1)))
        hg == Fixed(color_features_per_channel(Channel(y, 2)))
        hb == Fixed(color_features_per_channel(Channel(y, 3)))
    IN  Eager(VecDiv(hr, Norm(hr)), LAMBDA r :
            [r |-> r, g |-> VecDiv(r, Norm(hg)), b |-> VecDiv(r, Norm(hb))])

Derived(labels, N, x, y) ==
    Eager(Histograms(y), LAMBDA h :
        [labels |-> labels, N |-> N, x |-> x, y |-> y,
         mean |-> NormalizedMean(x, N), r |-> h.r, g |-> h.g, b |-> h.b])

\* (diff_r + diff_g + diff_b) / 3 of lines 433-436 and 449-452
DiffHist(a, b) ==
    (DiffNorm(a.r, b.r) \div 2 + DiffNorm(a.g, b.g) \div 2
        + DiffNorm(a.b, b.b) \div 2) \div 3

Weighted(diff_hist, diff_mean) ==
    IF diff_mean = NaN THEN NaN
    ELSE (w_hist * diff_hist + w_mean * diff_mean) \div 10

\* the edge weight of _generate_graph, lines 430-440
GraphWeight(a, b) ==
    LET dm == DiffNorm(a.mean, b.mean)
    IN  Weighted(DiffHist(a, b), IF dm = NaN THEN NaN ELSE dm \div 2)

\* _weighting_function, lines 444-456
weighting_function(at, src, dst, n) ==
    Weighted(DiffHist(at[dst], at[n]), DiffNorm(at[dst].mean, at[n].mean))

-----------------------------------------------------------------------------
(* skimage.future.graph.RAG(superpixels, connectivity), networkx underneath *)

\* a footprint that is the full 3 x 3 window for every connectivity
Footprint_full(conn) ==
    << <<-1, -1>>, <<-1, 0>>, <<-1, 1>>, <<0, -1>>, <<0, 0>>, <<0, 1>>,
       <<1, -1>>, <<1, 0>>, <<1, 1>> >>

\* ndi.generate_binary_structure(2, connectivity), in raster order
Footprint(conn) ==
    IF conn = 1
    THEN << <<-1, 0>>, <<0, -1>>, <<0, 0>>, <<0, 1>>, <<1, 0>> >>
    ELSE << <<-1, -1>>, <<-1, 0>>, <<-1, 1>>, <<0, -1>>, <<0, 0>>, <<0, 1>>,
            <<1, -1>>, <<1, 0>>, <<1, 1>> >>

\* mode='nearest'
Clamp(v, n) == IF v < 0 THEN 0 ELSE IF v > n - 1 THEN n - 1 ELSE v

EmptyGraph(labels) ==
    [nodes |-> <<>>, adj |-> [n \in 0..MaxOf(Values(labels) \cup {0}) |-> <<>>]]

AddNode(G, u) ==
    IF u \in Values(G.nodes) THEN G ELSE [G EXCEPT !.nodes = Append(@, u)]

AddEdge(G, u, v) ==
    LET G1 == AddNode(AddNode(G, u), v)
    IN  [G1 EXCEPT !.adj[u] = IF v \in Values(@) THEN @ ELSE Append(@, v),
                   !.adj[v] = IF u \in Values(@) THEN @ ELSE Append(@, u)]

Without(s, n) == SelectSeq(s, LAMBDA m : m # n)

RemoveNode(G, n) ==
    [nodes |-> Without(G.nodes, n),
     adj |-> [m \in DOMAIN G.adj |-> IF m = n THEN <<>> ELSE Without(G.adj[m], n)]]

\* _add_edge_filter on the window of pixel p, from footprint element k on
RECURSIVE AddEdgeFilter(_, _, _, _, _, _)
AddEdgeFilter(graph, labels, p, k, w, fp) ==
    Eager(graph, LAMBDA G :
      IF k > Len(fp) THEN G
      ELSE LET h == Len(labels) \div w
               center == labels[p]
               value == labels[Pix(Clamp(Row(p, w) + fp[k][1], h),
                                   Clamp(Col(p, w) + fp[k][2], w), w)]
           IN  AddEdgeFilter(IF value # center THEN AddEdge(G, center, value) ELSE G,
                             labels, p, k + 1, w, fp))

\* ndi.generic_filter: every pixel in raster order
RECURSIVE GenericFilter(_, _, _, _, _)
GenericFilter(graph, labels, p, w, fp) ==
    Eager(graph, LAMBDA G :
      IF p > Len(labels) THEN G
      ELSE GenericFilter(AddEdgeFilter(G, labels, p, 1, w, fp), labels, p + 1, w, fp))

RAG(labels, w, conn) == GenericFilter(EmptyGraph(labels), labels, 1, w, Footprint(conn))

Key(u, v) == IF u < v THEN <<u, v>> ELSE <<v, u>>

Position(s, v) == IF v \in Values(s) THEN IndexOf(s, v) ELSE 0

\* g.edges(): for each node in order, its neighbours not yet seen as a node
RECURSIVE EdgesFrom(_, _, _)
EdgesFrom(ns, ad, i) ==
    IF i > Len(ns) THEN <<>>
    ELSE LET n == ns[i]
             fresh == SelectSeq(ad[n], LAMBDA m : Position(ns, m) > i)
         IN  [k \in DOMAIN fresh |-> <<n, fresh[k]>>] \o EdgesFrom(ns, ad, i + 1)

Edges(ns, ad) == EdgesFrom(ns, ad, 1)

-----------------------------------------------------------------------------
(* heapq on the items [wt, n1, n2, valid] of merge_hierarchical *)

\* a comparison of heap items by weight alone
ItemLt_weight_only(a, b) ==
    IF a.wt = NaN \/ b.wt = NaN THEN FALSE ELSE a.wt < b.wt

\* a < b on two Python lists [wt, n1, n2, valid]: the first differing element
\* decides; a nan weight differs from everything and is less than nothing
ItemLt(a, b) ==
    IF a.wt = NaN \/ b.wt = NaN THEN FALSE
    ELSE IF a.wt # b.wt THEN a.wt < b.wt
    ELSE IF a.n1 # b.n1 THEN a.n1 < b.n1
    ELSE IF a.n2 # b.n2 THEN a.n2 < b.n2
    ELSE ~a.valid /\ b.valid

RECURSIVE SiftDownLoop(_, _, _, _)
SiftDownLoop(heap0, startpos, pos, newitem) ==
    Eager(heap0, LAMBDA heap :
      IF pos > startpos /\ ItemLt(newitem, heap[pos \div 2])
      THEN SiftDownLoop([heap EXCEPT ![pos] = heap[pos \div 2]], startpos,
                        pos \div 2, newitem)
      ELSE [heap EXCEPT ![pos] = newitem])

RECURSIVE SiftUpLoop(_, _, _)
SiftUpLoop(heap0, pos, newitem) ==
    Eager(heap0, LAMBDA heap :
      LET childpos == 2 * pos
          rightpos == childpos + 1
          c == IF rightpos <= Len(heap) /\ ~ItemLt(heap[childpos], heap[rightpos])
               THEN rightpos ELSE childpos
      IN  IF childpos <= Len(heap)
          THEN SiftUpLoop([heap EXCEPT ![pos] = heap[c]], c, newitem)
          ELSE SiftDownLoop([heap EXCEPT ![pos] = newitem], 1, pos, newitem))

heappush(heap0, item) ==
    Eager(heap0, LAMBDA heap : SiftDownLoop(Append(heap, item), 1, Len(heap) + 1, item))

\* the heap left by heapq.heappop (which returns heap[1])
heappop(heap) ==
    LET lastelt == heap[Len(heap)]
        rest == SubSeq(heap, 1, Len(heap) - 1)
    IN  IF rest = <<>> THEN rest ELSE SiftUpLoop(rest, 1, lastelt)

RECURSIVE PushAll(_, _)
PushAll(heap0, items) ==
    Eager(heap0, LAMBDA heap :
      IF items = <<>> THEN heap
      ELSE PushAll(heappush(heap, Head(items)), Tail(items)))

HeapItem(wt, n1, n2) == [wt |-> wt, n1 |-> n1, n2 |-> n2, valid |-> TRUE]

\* _invalidate_edge for every edge of node n: the heap item an edge refers to
\* is the only valid one with its endpoints
InvalidateNode(heap, n) ==
    [k \in DOMAIN heap |->
        IF heap[k].n1 = n \/ heap[k].n2 = n
        THEN [heap[k] EXCEPT !.valid = FALSE] ELSE heap[k]]

-----------------------------------------------------------------------------
(* _generate_graph *)

Zero3 == <<0, 0, 0>>

\* lines 407-415 from pixel p on: N, x and y of the node of each pixel
RECURSIVE Accumulate(_, _, _, _)
Accumulate(at0, labels, image, p) ==
    Eager(at0, LAMBDA at :
      IF p > Len(labels) THEN at
      ELSE LET current == labels[p]
           IN  IF current = 0 THEN Accumulate(at, labels, image, p + 1)
               ELSE Accumulate(
                      [at EXCEPT ![current].N = @ + 1,
                                 ![current].x = [c \in 1..3 |-> @[c] + image[p][c]],
                                 ![current].y = Append(@, image[p])],
                      labels, image, p + 1))

\* the graph before its edge weights, lines 390-428
GraphNodes(image, labels, w, conn) ==
    Eager(RAG(labels, w, conn), LAMBDA G0 :
      Eager(IF 0 \in Values(G0.nodes) THEN RemoveNode(G0, 0) ELSE G0, LAMBDA G :
        LET blank == [n \in Values(G.nodes) |-> [N |-> 0, x |-> Zero3, y |-> <<>>]]
        IN  Eager(Accumulate(blank, labels, image, 1), LAMBDA acc :
              [nodes |-> G.nodes, adj |-> G.adj,
               attrs |-> [n \in Values(G.nodes) |->
                            Derived(<<n>>, acc[n].N, acc[n].x, acc[n].y)]])))

\* g.nodes[current] of line 411 raises KeyError for a label that is no node:
\* RAG() makes nodes only as edge endpoints, so a map of one label has none
KeyErrorInGraph(labels, w, conn) ==
    Eager(RAG(labels, w, conn), LAMBDA G :
        \E p \in DOMAIN labels : labels[p] # 0 /\ labels[p] \notin Values(G.nodes))

EdgeWeights(ns, ad, at) ==
    Eager(Edges(ns, ad), LAMBDA es :
        [e \in {Key(es[k][1], es[k][2]) : k \in DOMAIN es} |->
            GraphWeight(at[e[1]], at[e[2]])])

-----------------------------------------------------------------------------
(* _merging_function and RAG.merge_nodes *)

\* a _merging_function that adds graph.nodes[src]["N"] twice
merging_function_N_twice(at, src, dst) ==
    LET x == [c \in 1..3 |-> at[dst].x[c] + at[src].x[c]]
        N == at[dst].N + at[src].N + at[src].N
        y == at[dst].y \o at[src].y
    IN  [at EXCEPT ![dst] = Derived(at[dst].labels, N, x, y)]

\* a _merging_function that overwrites graph.nodes[dst]["N"] with that of src
merging_function_N_of_src(at, src, dst) ==
    LET x == [c \in 1..3 |-> at[dst].x[c] + at[src].x[c]]
        N == at[src].N
        y == at[dst].y \o at[src].y
    IN  [at EXCEPT ![dst] = Derived(at[dst].labels, N, x, y)]

\* a _merging_function that leaves the pixels of src out of dst's "y"
merging_function_without_y(at, src, dst) ==
    LET x == [c \in 1..3 |-> at[dst].x[c] + at[src].x[c]]
        N == at[dst].N + at[src].N
    IN  [at EXCEPT ![dst] = Derived(at[dst].labels, N, x, at[dst].y)]

\* _merging_function(graph, src, dst), lines 458-487
merging_function(at, src, dst) ==
    LET x == [c \in 1..3 |-> at[dst].x[c] + at[src].x[c]]
        N == at[dst].N + at[src].N
        y == at[dst].y \o at[src].y
    IN  [at EXCEPT ![dst] = Derived(at[dst].labels, N, x, y)]

\* (src_nbrs | dst_nbrs) - {src, dst}; a set of small ints iterates ascending
MergeNeighbors(ad, src, dst) ==
    SortedSeq((Values(ad[src]) \cup Values(ad[dst])) \ {src, dst})

RECURSIVE AddEdges(_, _, _, _)
AddEdges(graph, nbrs, new, k) ==
    Eager(graph, LAMBDA G :
      IF k > Len(nbrs) THEN G ELSE AddEdges(AddEdge(G, nbrs[k], new), nbrs, new, k + 1))

\* a merge_nodes whose remove_node(src) leaves src among the nodes
MergedStructure_src_listed(ns, ad, src, dst) ==
    [nodes |-> ns,
     adj |-> RemoveNode(AddEdges([nodes |-> ns, adj |-> ad],
                                 MergeNeighbors(ad, src, dst), dst, 1), src).adj]

\* the graph structure after merge_nodes(src, dst): edges to every neighbour,
\* then remove_node(src)
MergedStructure(ns, ad, src, dst) ==
    RemoveNode(AddEdges([nodes |-> ns, adj |-> ad],
                        MergeNeighbors(ad, src, dst), dst, 1), src)

\* node attributes after merge_func and merge_nodes
MergedAttrs(at, src, dst) ==
    Eager(merging_function(at, src, dst), LAMBDA m :
        [n \in DOMAIN at \ {src} |->
            IF n = dst
            THEN [m[dst] EXCEPT !.labels = at[src].labels \o at[dst].labels]
            ELSE m[n]])

\* edge weights after merge_nodes, computed from the statistics dst had before
\* merge_func updated them
MergedWeights_before_update(wts, ad, at, src, dst) ==
    Eager(Values(MergeNeighbors(ad, src, dst)), LAMBDA nbrs :
      LET kept == {e \in DOMAIN wts : e[1] # src /\ e[2] # src}
      IN  [e \in kept \cup {Key(dst, n) : n \in nbrs} |->
            IF e[1] = dst /\ e[2] \in nbrs THEN weighting_function(at, src, dst, e[2])
            ELSE IF e[2] = dst /\ e[1] \in nbrs THEN weighting_function(at, src, dst, e[1])
            ELSE wts[e]])

\* edge weights after merge_nodes: weight_func for every neighbour of the
\* merged node, the edges of src gone
MergedWeights(wts, ad, at, src, dst) ==
    Eager(merging_function(at, src, dst), LAMBDA m :
      Eager(Values(MergeNeighbors(ad, src, dst)), LAMBDA nbrs :
        LET kept == {e \in DOMAIN wts : e[1] # src /\ e[2] # src}
        IN  [e \in kept \cup {Key(dst, n) : n \in nbrs} |->
              IF e[1] = dst /\ e[2] \in nbrs THEN weighting_function(m, src, dst, e[2])
              ELSE IF e[2] = dst /\ e[1] \in nbrs THEN weighting_function(m, src, dst, e[1])
              ELSE wts[e]]))

\* _revalidate_node_edges: a new heap item for every edge of node
Revalidated(heap, ad, wts, node) ==
    PushAll(InvalidateNode(heap, node),
            [k \in DOMAIN ad[node] |->
                HeapItem(wts[Key(node, ad[node][k])], node, ad[node][k])])

-----------------------------------------------------------------------------
(* Inputs *)

NPix == Height * Width

\* black and two stains
Palette == << <<0, 0, 0>>, <<200, 100, 150>>, <<60, 60, 200>> >>

\* images whose columns are uniformly coloured
Images ==
    {[p \in 1..NPix |-> Palette[c[Col(p, Width) + 1]]] :
        c \in [1..Width -> 1..Len(Palette)]}

\* what slic(...) + 1 of line 214 can return
LabelMaps ==
    {s \in [1..NPix -> 1..MaxLabels] :
        ScanOrdered(s) /\ SegmentsConnected(s, Height, Width)}

\* binary masks covering a range of columns
ColumnMasks ==
    {[p \in 1..NPix |-> IF a <= Col(p, Width) /\ Col(p, Width) < b THEN 1 ELSE 0] :
        a \in 0..Width, b \in 0..Width}

\* 0, the default 0.03, 0.5
Thresholds == {0, 30, 500}

Names == {"a", "b"}
Procs == {"p1", "p2"}

\* a caller that is not inside process_and_save
Idle ==
    [pc |-> "idle", output_name |-> None, branch |-> None, merged |-> None,
     initial |-> None, error |-> None, after_store |-> FALSE, observed |-> None]

AbsentFile == [state |-> "absent", data |-> None]

\* no extractor was constructed, nothing is being resized
ProcessIdle ==
    /\ config = None
    /\ proc = [pc |-> "new", height |-> 0, width |-> 0, h |-> 0, w |-> 0,
               n_segments |-> None, merged |-> None, initial |-> None,
               error |-> None]
    /\ scale = [pc |-> "idle", image |-> None, factor |-> 1, new_height |-> 0,
                new_width |-> 0, out |-> None]

\* an empty output directory, nobody calling
CacheIdle ==
    /\ h5 = [n \in Names |-> AbsentFile]
    /\ joblib_file = [n \in Names |-> FALSE]
    /\ caller = [q \in Procs |-> Idle]
    /\ saved = [n \in Names |-> None]

-----------------------------------------------------------------------------
(* _merge_superpixels as a state machine *)

\* the calls of _merge_superpixels that are explored: every image, label map
\* and threshold without a tissue mask; both connectivities at the default
\* threshold; every column mask on the images that hold all three colours
Calls ==
    [image : Images, labels : LabelMaps, mask : {None},
     thresh : Thresholds, conn : {2}]
    \cup
    [image : Images, labels : LabelMaps, mask : {None},
     thresh : {30}, conn : {1}]
    \cup
    [image : {i \in Images : Cardinality(Values(i)) = Len(Palette)},
     labels : LabelMaps, mask : ColumnMasks, thresh : {30}, conn : {2}]

Init ==
    /\ \E c \in Calls :
           /\ input_image = c.image
           /\ initial_superpixels = c.labels
           /\ tissue_mask = c.mask
           /\ threshold = c.thresh
           /\ connectivity = c.conn
    /\ pc = "start"
    /\ superpixels = None
    /\ nodes = <<>>
    /\ adj = <<>>
    /\ attrs = <<>>
    /\ weights = <<>>
    /\ edge_heap = <<>>
    /\ merged_superpixels = None
    /\ merges = <<>>
    /\ CacheIdle
    /\ ProcessIdle

inputVars == <<input_image, initial_superpixels, tissue_mask, threshold, connectivity>>
graphVars == <<nodes, adj, attrs, weights>>

\* lines 223-241
FilterTissue ==
    /\ pc = "start"
    /\ superpixels' = TissueFilter(initial_superpixels, tissue_mask)
    /\ pc' = "filtered"
    /\ UNCHANGED <<inputVars, graphVars, edge_heap, merged_superpixels, merges, cacheVars, processVars>>

\* line 244: g = self._generate_graph(input_image, initial_superpixels)
GenerateGraph ==
    /\ pc = "filtered"
    /\ ~KeyErrorInGraph(superpixels, Width, connectivity)
    /\ \E G \in {GraphNodes(input_image, superpixels, Width, connectivity)} :
           /\ nodes' = G.nodes
           /\ adj' = G.adj
           /\ attrs' = G.attrs
           /\ weights' = EdgeWeights(G.nodes, G.adj, G.attrs)
    /\ pc' = "graph"
    /\ UNCHANGED <<inputVars, superpixels, edge_heap, merged_superpixels, merges, cacheVars, processVars>>

\* line 411 raises: _merge_superpixels returns nothing
GenerateGraphFails ==
    /\ pc = "filtered"
    /\ KeyErrorInGraph(superpixels, Width, connectivity)
    /\ pc' = "KeyError"
    /\ UNCHANGED <<inputVars, superpixels, graphVars, edge_heap, merged_superpixels,
                   merges, cacheVars, processVars>>

\* merge_hierarchical: every edge of the graph is pushed on the heap
BuildHeap ==
    /\ pc = "graph"
    /\ \E es \in {Edges(nodes, adj)} :
           edge_heap' = PushAll(<<>>, [k \in DOMAIN es |->
                HeapItem(weights[Key(es[k][1], es[k][2])], es[k][1], es[k][2])])
    /\ pc' = "merging"
    /\ UNCHANGED <<inputVars, superpixels, graphVars, merged_superpixels, merges, cacheVars, processVars>>

\* while len(edge_heap) > 0 and edge_heap[0][0] < thresh
LoopCondition == edge_heap # <<>> /\ FLt(edge_heap[1].wt, threshold)

\* one iteration that pops a valid item [wt, n1, n2, True]: src = n1 is merged
\* into dst = n2
MergeStep ==
    /\ pc = "merging"
    /\ LoopCondition
    /\ edge_heap[1].valid
    /\ \E top \in {edge_heap[1]} :
       \E src \in {top.n1}, dst \in {top.n2} :
       \E popped \in {InvalidateNode(InvalidateNode(heappop(edge_heap), src), dst)},
          G \in {MergedStructure(nodes, adj, src, dst)},
          wts \in {MergedWeights(weights, adj, attrs, src, dst)} :
           /\ nodes' = G.nodes
           /\ adj' = G.adj
           /\ attrs' = MergedAttrs(attrs, src, dst)
           /\ weights' = wts
           /\ edge_heap' = Revalidated(popped, G.adj, wts, dst)
           /\ merges' = Append(merges, [src |-> src, dst |-> dst, wt |-> top.wt])
    /\ UNCHANGED <<inputVars, pc, superpixels, merged_superpixels, cacheVars, processVars>>

\* one iteration that pops an invalidated item and discards it
PopInvalid ==
    /\ pc = "merging"
    /\ LoopCondition
    /\ ~edge_heap[1].valid
    /\ edge_heap' = heappop(edge_heap)
    /\ UNCHANGED <<inputVars, pc, superpixels, graphVars, merged_superpixels, merges,
                   cacheVars, processVars>>

\* a relabelling that maps the identifier of each node and not its "labels"
Relabel_node_only(labels, ns, at) ==
    [p \in DOMAIN labels |->
        IF \E i \in DOMAIN ns : labels[p] = ns[i]
        THEN (CHOOSE i \in DOMAIN ns : labels[p] = ns[i]) - 1
        ELSE labels[p]]

\* label_map[label] = ix for the labels of the ix-th node; label_map[labels]
Relabel(labels, ns, at) ==
    [p \in DOMAIN labels |->
        IF \E i \in DOMAIN ns : labels[p] \in Values(at[ns[i]].labels)
        THEN (CHOOSE i \in DOMAIN ns : labels[p] \in Values(at[ns[i]].labels)) - 1
        ELSE labels[p]]

\* lines 254-258 without the += 1
MaskedResult_without_increment(labels, relabelled) ==
    [p \in DOMAIN labels |-> relabelled[p] * (IF labels[p] # 0 THEN 1 ELSE 0)]

\* lines 254-258: + 1, times the mask of the pixels that are not 0
MaskedResult(labels, relabelled) ==
    [p \in DOMAIN labels |-> (relabelled[p] + 1) * (IF labels[p] # 0 THEN 1 ELSE 0)]

\* the loop ends; the label map is rewritten and returned
Finish ==
    /\ pc = "merging"
    /\ ~LoopCondition
    /\ merged_superpixels' = MaskedResult(superpixels, Relabel(superpixels, nodes, attrs))
    /\ pc' = "done"
    /\ UNCHANGED <<inputVars, superpixels, graphVars, edge_heap, merges, cacheVars, processVars>>

Next ==
    \/ FilterTissue
    \/ GenerateGraph
    \/ GenerateGraphFails
    \/ BuildHeap
    \/ MergeStep
    \/ PopInvalid
    \/ Finish

Spec == Init /\ [][Next]_vars

-----------------------------------------------------------------------------
(* Properties of the merge *)

GraphBuilt == pc \in {"graph", "merging", "done"}

\* pixels of the filtered map that belong to a region
InTissue == {p \in DOMAIN superpixels : superpixels[p] # 0}

AliveN == SumSeq([i \in DOMAIN nodes |-> attrs[nodes[i]].N])

\* C1: once the graph is built, and after every merge, the pixel counts N of
\* the alive nodes add up to the number of in-tissue pixels
C1_PixelConservation == GraphBuilt => AliveN = Cardinality(InTissue)

\* a merge was performed on a map with excluded pixels
C1_Witness ==
    /\ pc = "done"
    /\ Len(merges) >= 1
    /\ Cardinality(InTissue) < NPix
    /\ Len(nodes) >= 1

\* C2: every merge step takes exactly one node away from the alive nodes
\* (the merged source), and adds none
C2_MonotonicRegionCount ==
    [][merges' # merges =>
         /\ Len(nodes') = Len(nodes) - 1
         /\ Values(nodes') = Values(nodes) \ {merges'[Len(merges')].src}]_vars

\* three regions were merged into one by two merge steps
C2_Witness == Len(merges) = 2 /\ Len(nodes) = 1

\* weight >= threshold on floats
FGe(a, b) == a # NaN /\ b # NaN /\ a >= b

\* the Stable condition: one node at most, or every remaining edge at or
\* above the threshold
Stable == Len(nodes) <= 1 \/ \A e \in DOMAIN weights : FGe(weights[e], threshold)

\* C3: when the merge loop has stopped the graph is Stable
C3_TerminatesStable == pc = "done" => Stable

\* the loop has stopped with an edge strictly below the threshold left
C3_EdgeBelowThresholdLeft ==
    /\ pc = "done"
    /\ \E e \in DOMAIN weights : FLt(weights[e], threshold)

\* the loop never stops with an edge strictly below the threshold left
C3_NoEdgeBelowThresholdLeft == ~C3_EdgeBelowThresholdLeft

\* C4 as stated: with threshold 0 no merge is performed and the returned map
\* is element-wise equal to the filtered initial map
C4_ZeroThresholdIdentity ==
    (pc = "done" /\ threshold = 0) =>
        merges = <<>> /\ merged_superpixels = superpixels

\* a is b with its non-zero labels renamed one-to-one, 0 kept
SamePartition(a, b) ==
    /\ DOMAIN a = DOMAIN b
    /\ \A p \in DOMAIN a : (a[p] = 0) <=> (b[p] = 0)
    /\ \A p, q \in DOMAIN a : (a[p] = a[q]) <=> (b[p] = b[q])

\* C4 amended: with threshold 0 no merge is performed and the returned map is
\* the filtered initial map with its labels renamed one-to-one (label i + 1
\* for the i-th node of the graph), 0 staying 0
C4_ZeroThresholdNoMerge ==
    (pc = "done" /\ threshold = 0) =>
        /\ merges = <<>>
        /\ SamePartition(merged_superpixels, superpixels)
        /\ \A p \in InTissue :
               nodes[merged_superpixels[p]] = superpixels[p]

\* threshold 0 on regions of one colour (edges of weight 0), returned with
\* other labels than the initial ones
C4_Witness ==
    /\ pc = "done"
    /\ threshold = 0
    /\ \E e \in DOMAIN weights : weights[e] = 0
    /\ merged_superpixels # superpixels

\* C5: the returned map uses exactly the labels 1..K on its region pixels, K
\* the number of nodes left, and 0 exactly on the pixels the filter excluded
C5_LabelContiguity ==
    pc = "done" =>
        /\ {merged_superpixels[p] : p \in InTissue} = 1..Len(nodes)
        /\ \A p \in DOMAIN superpixels :
               (merged_superpixels[p] = 0) <=> (superpixels[p] = 0)

\* a returned map with excluded pixels and two regions left
C5_Witness ==
    /\ pc = "done"
    /\ Len(nodes) = 2
    /\ InTissue # {}
    /\ Cardinality(InTissue) < NPix
    /\ merged_superpixels # initial_superpixels

-----------------------------------------------------------------------------
(* The tissue filter alone, on strips of one row *)

\* the slic label maps of a strip: segments are runs, numbered left to right
StripMaps ==
    {[p \in 1..StripLen |-> 1 + Cardinality({c \in cuts : c < p})] :
        cuts \in {C \in SUBSET (1..(StripLen - 1)) : Cardinality(C) < MaxLabels}}

\* binary masks that are 1 on the pixels a+1..b
StripMasks ==
    {[p \in 1..StripLen |-> IF a < p /\ p <= b THEN 1 ELSE 0] :
        a \in 0..StripLen, b \in 0..StripLen}

FilterInit ==
    /\ input_image = [p \in 1..StripLen |-> Palette[2]]
    /\ initial_superpixels \in StripMaps
    /\ tissue_mask \in StripMasks \cup {None}
    /\ threshold = 30
    /\ connectivity = 2
    /\ pc = "start"
    /\ superpixels = None
    /\ nodes = <<>>
    /\ adj = <<>>
    /\ attrs = <<>>
    /\ weights = <<>>
    /\ edge_heap = <<>>
    /\ merged_superpixels = None
    /\ merges = <<>>
    /\ CacheIdle
    /\ ProcessIdle

FilterNext == FilterTissue

FilterSpec == FilterInit /\ [][FilterNext]_vars

FirstPixel(labels, id) ==
    CHOOSE p \in DOMAIN labels :
        labels[p] = id /\ \A q \in DOMAIN labels : labels[q] = id => p <= q

\* the regions with at least a tenth of their pixels under the mask
TissueRegions ==
    {id \in Values(initial_superpixels) :
        10 * Cardinality({p \in DOMAIN tissue_mask :
                            initial_superpixels[p] = id /\ tissue_mask[p] = 1})
          >= Count(initial_superpixels, id)}

\* C6: the filter keeps a region iff its tissue ratio is at least 0.1, gives
\* the kept regions the ids 1..K' in the order of their first appearance in
\* the input map, and sets every pixel of a dropped region to 0
C6_TissueFilterThreshold ==
    (pc = "filtered" /\ tissue_mask # None) =>
        \A p \in DOMAIN initial_superpixels :
            superpixels[p] =
                IF initial_superpixels[p] \in TissueRegions
                THEN Cardinality({id \in TissueRegions :
                        FirstPixel(initial_superpixels, id)
                          <= FirstPixel(initial_superpixels, initial_superpixels[p])})
                ELSE 0

\* region 2 kept at a ratio of exactly 0.1 and renumbered 1, after a dropped
\* region
C6_Witness ==
    /\ pc = "filtered"
    /\ tissue_mask # None
    /\ \E p, q \in DOMAIN initial_superpixels :
          /\ superpixels[p] = 0
          /\ p < q
          /\ superpixels[q] = 1
          /\ initial_superpixels[q] = 2
          /\ 10 * Cardinality({r \in DOMAIN tissue_mask :
                 initial_superpixels[r] = 2 /\ tissue_mask[r] = 1})
               = Count(initial_superpixels, 2)

-----------------------------------------------------------------------------
(* process_and_save: the cache of computed outputs, lines 315-360 *)

\* what self.process(*args, **kwargs) can return: (merged, initial) label maps
ProcessOutputs ==
    { << <<1, 1>>, <<1, 2>> >>, << <<1, 2>>, <<1, 2>> >> }

\* PipelineStep._set_outputs: output i becomes the dataset named str(i)
SetOutputs(outputs) ==
    [k \in {"0", "1"} |-> IF k = "0" THEN outputs[1] ELSE outputs[2]]

\* PipelineStep._get_outputs: the datasets "0", "1", ... as a tuple
GetOutputs(data) == <<data["0"], data["1"]>>

\* superpixel_output_path.exists() and mapping_output_path.exists()
OutputExists(n) == h5[n].state # "absent" /\ joblib_file[n]

\* h5py.File(path, "r") opens only a file that was written and closed
Readable(file) == file.state = "complete"

\* the unpacking of lines 330-332 with its sides exchanged
ReadOutputs_swapped(c, file) ==
    [c EXCEPT !.pc = "returned",
              !.merged = GetOutputs(file.data)[2],
              !.initial = GetOutputs(file.data)[1]]

\* lines 329-333: merged_superpixels, initial_superpixels = _get_outputs(...)
ReadOutputs(c, file) ==
    [c EXCEPT !.pc = "returned",
              !.merged = GetOutputs(file.data)[1],
              !.initial = GetOutputs(file.data)[2]]

\* an except branch that falls through to the computation
ReadFailure_recomputes(c, file) ==
    [c EXCEPT !.pc = "process", !.observed = file.state]

\* lines 334-344: except OSError as e: print, print, raise e
ReadFailure(c, file) ==
    [c EXCEPT !.pc = "raised", !.error = "OSError", !.observed = file.state]

\* a call of process_and_save(output_name) up to the test of line 325
Call(q, n) ==
    /\ caller[q].pc = "idle"
    /\ caller' = [caller EXCEPT ![q] =
          [Idle EXCEPT !.output_name = n,
                       !.after_store = (saved[n] # None),
                       !.branch = IF OutputExists(n) THEN "load" ELSE "process",
                       !.pc = IF OutputExists(n) THEN "load" ELSE "process"]]
    /\ UNCHANGED <<mergeVars, processVars, h5, joblib_file, saved>>

\* lines 329-344: the existing output is opened and read, or OSError is raised
Load(q) ==
    /\ caller[q].pc = "load"
    /\ caller' = [caller EXCEPT ![q] =
          IF Readable(h5[caller[q].output_name])
          THEN ReadOutputs(caller[q], h5[caller[q].output_name])
          ELSE ReadFailure(caller[q], h5[caller[q].output_name])]
    /\ UNCHANGED <<mergeVars, processVars, h5, joblib_file, saved>>

\* lines 346-348: the outputs are computed
Process(q) ==
    /\ caller[q].pc = "process"
    /\ \E out \in ProcessOutputs :
          caller' = [caller EXCEPT ![q].pc = "open",
                                   ![q].merged = out[1],
                                   ![q].initial = out[2]]
    /\ UNCHANGED <<mergeVars, processVars, h5, joblib_file, saved>>

\* a process_and_save that opens the output for writing before it computes
ProcessFails_after_open(q) ==
    /\ caller[q].pc = "process"
    /\ caller' = [caller EXCEPT ![q].pc = "raised", ![q].error = "ProcessError"]
    /\ h5' = [h5 EXCEPT ![caller[q].output_name] = [state |-> "partial", data |-> None]]
    /\ UNCHANGED <<mergeVars, processVars, joblib_file, saved>>

\* lines 346-348: self.process raises; nothing was opened
ProcessFails(q) ==
    /\ caller[q].pc = "process"
    /\ caller' = [caller EXCEPT ![q].pc = "raised", ![q].error = "ProcessError"]
    /\ UNCHANGED <<mergeVars, processVars, h5, joblib_file, saved>>

\* line 350: h5py.File(path, "w") creates the file or truncates it in place
OpenWrite(q) ==
    /\ caller[q].pc = "open"
    /\ h5' = [h5 EXCEPT ![caller[q].output_name] = [state |-> "partial", data |-> None]]
    /\ caller' = [caller EXCEPT ![q].pc = "write"]
    /\ UNCHANGED <<mergeVars, processVars, joblib_file, saved>>

\* line 350 raises OSError (no permission, locked): lines 355-359
OpenWriteFails(q) ==
    /\ caller[q].pc = "open"
    /\ caller' = [caller EXCEPT ![q].pc = "raised", ![q].error = "OSError",
                                ![q].merged = None, ![q].initial = None]
    /\ UNCHANGED <<mergeVars, processVars, h5, joblib_file, saved>>

\* lines 351-354 and 360: both datasets are written, the file is closed, the
\* pair is returned
Write(q) ==
    /\ caller[q].pc = "write"
    /\ h5' = [h5 EXCEPT ![caller[q].output_name] =
                [state |-> "complete",
                 data |-> SetOutputs(<<caller[q].merged, caller[q].initial>>)]]
    /\ saved' = [saved EXCEPT ![caller[q].output_name] =
                    <<caller[q].merged, caller[q].initial>>]
    /\ caller' = [caller EXCEPT ![q].pc = "returned"]
    /\ UNCHANGED <<mergeVars, processVars, joblib_file>>

\* an except branch that logs the OSError and goes on to line 360
WriteFails_returns_result(q) ==
    /\ caller[q].pc = "write"
    /\ caller' = [caller EXCEPT ![q].pc = "returned", ![q].error = "OSError"]
    /\ UNCHANGED <<mergeVars, processVars, h5, joblib_file, saved>>

\* lines 351-359: _set_outputs raises OSError; the truncated file stays
WriteFails(q) ==
    /\ caller[q].pc = "write"
    /\ caller' = [caller EXCEPT ![q].pc = "raised", ![q].error = "OSError",
                                ![q].merged = None, ![q].initial = None]
    /\ UNCHANGED <<mergeVars, processVars, h5, joblib_file, saved>>

\* the call is over: its caller may call again
Return(q) ==
    /\ caller[q].pc \in {"returned", "raised"}
    /\ caller' = [caller EXCEPT ![q] = Idle]
    /\ UNCHANGED <<mergeVars, processVars, h5, joblib_file, saved>>

\* <name>.joblib is put into the directory by something else than
\* process_and_save, which tests for it (line 325) and never writes it
MappingAppears(n) ==
    /\ ~joblib_file[n]
    /\ joblib_file' = [joblib_file EXCEPT ![n] = TRUE]
    /\ UNCHANGED <<mergeVars, processVars, h5, caller, saved>>

CacheInit ==
    /\ input_image = [p \in 1..NPix |-> Palette[2]]
    /\ initial_superpixels = [p \in 1..NPix |-> 1]
    /\ tissue_mask = None
    /\ threshold = 30
    /\ connectivity = 2
    /\ pc = "start"
    /\ superpixels = None
    /\ nodes = <<>>
    /\ adj = <<>>
    /\ attrs = <<>>
    /\ weights = <<>>
    /\ edge_heap = <<>>
    /\ merged_superpixels = None
    /\ merges = <<>>
    /\ CacheIdle
    /\ ProcessIdle

CacheNext ==
    \/ \E q \in Procs, n \in Names : Call(q, n)
    \/ \E q \in Procs : Load(q)
    \/ \E q \in Procs : Process(q)
    \/ \E q \in Procs : ProcessFails(q)
    \/ \E q \in Procs : OpenWrite(q)
    \/ \E q \in Procs : OpenWriteFails(q)
    \/ \E q \in Procs : Write(q)
    \/ \E q \in Procs : WriteFails(q)
    \/ \E q \in Procs : Return(q)
    \/ \E n \in Names : MappingAppears(n)

CacheSpec == CacheInit /\ [][CacheNext]_vars

-----------------------------------------------------------------------------
(* Properties of the cache *)

\* q's call reads the existing output in this step
Reads(q) == caller[q].pc = "load" /\ caller'[q].pc # "load"

C8_CacheReuse ==
    \A q \in Procs : caller[q].after_store => caller[q].branch = "load"

\* C9: no reader ever opens an output that is partially written
C9_AtomicStore ==
    \A q \in Procs : caller[q].observed # "partial"

\* C10: a call that finds the output but cannot read it raises the read
\* error, returns no label maps, does not go on to recompute, and leaves the
\* stored files as they are
C10_ReadFailureNoSilentRecompute ==
    [][\A q \in Procs :
          (Reads(q) /\ ~Readable(h5[caller[q].output_name])) =>
              /\ caller'[q].pc = "raised"
              /\ caller'[q].error = "OSError"
              /\ caller'[q].merged = None /\ caller'[q].initial = None
              /\ h5' = h5
              /\ joblib_file' = joblib_file]_vars

\* a call has raised the read error of an output that exists
C10_Witness ==
    \E q \in Procs :
        /\ caller[q].pc = "raised"
        /\ caller[q].branch = "load"
        /\ caller[q].error = "OSError"
        /\ h5[caller[q].output_name].state = "partial"

\* q's call fails to write its output in this step
WriteError(q) ==
    /\ caller[q].pc \in {"open", "write"}
    /\ caller'[q].error = "OSError"

\* C11 as stated: a call whose output cannot be written surfaces the error
\* and still returns the computed (merged, initial) pair to its caller
C11_WriteErrorReturnsResult ==
    [][\A q \in Procs :
          WriteError(q) =>
              /\ caller'[q].pc = "returned"
              /\ caller'[q].merged = caller[q].merged
              /\ caller'[q].initial = caller[q].initial]_vars

\* C11 amended: a call whose output cannot be written raises the OSError to
\* its caller and returns nothing; the computed pair is lost
C11_WriteErrorRaised ==
    [][\A q \in Procs :
          WriteError(q) =>
              /\ caller'[q].pc = "raised"
              /\ caller'[q].merged = None
              /\ caller'[q].initial = None]_vars

\* a call has raised the OSError of a write that failed after the file was
\* opened
C11_Witness ==
    \E q \in Procs :
        /\ caller[q].pc = "raised"
        /\ caller[q].branch = "process"
        /\ caller[q].error = "OSError"
        /\ h5[caller[q].output_name].state = "partial"

\* C12: when self.process fails, process_and_save raises the failure, returns
\* no label maps and leaves the files of the output directory untouched
C12_ProcessFailurePersistsNothing ==
    [][\A q \in Procs :
          (caller[q].pc = "process" /\ caller'[q].pc = "raised") =>
              /\ caller'[q].error = "ProcessError"
              /\ caller'[q].merged = None
              /\ caller'[q].initial = None
              /\ h5' = h5
              /\ joblib_file' = joblib_file]_vars

\* a call has raised the failure of process and its output does not exist
C12_Witness ==
    \E q \in Procs :
        /\ caller[q].pc = "raised"
        /\ caller[q].error = "ProcessError"
        /\ h5[caller[q].output_name].state = "absent"

-----------------------------------------------------------------------------
(* Resizing: cv2.resize(image, (new_width, new_height), INTER_NEAREST) *)

\* a 2-d array: its shape and its elements in raster order
Array(h, w, data) == [h |-> h, w |-> w, data |-> data]

Min(a, b) == IF a <= b THEN a ELSE b

\* cv2 rejects an empty destination size
ResizeFails(nh, nw) == nh <= 0 \/ nw <= 0

\* a resize that blends each sample with its right-hand neighbour
Resize_blended(a, nh, nw) ==
    Array(nh, nw,
          [p \in 1..(nh * nw) |->
              (a.data[Pix(Min((Row(p, nw) * a.h) \div nh, a.h - 1),
                          Min((Col(p, nw) * a.w) \div nw, a.w - 1), a.w)]
               + a.data[Pix(Min((Row(p, nw) * a.h) \div nh, a.h - 1),
                            Min((Col(p, nw) * a.w) \div nw + 1, a.w - 1), a.w)]
               + 1) \div 2])

\* nearest neighbour: destination (r, c) takes source
\* (min(floor(r * h / nh), h - 1), min(floor(c * w / nw), w - 1))
Resize(a, nh, nw) ==
    Array(nh, nw,
          [p \in 1..(nh * nw) |->
              a.data[Pix(Min((Row(p, nw) * a.h) \div nh, a.h - 1),
                         Min((Col(p, nw) * a.w) \div nw, a.w - 1), a.w)]])

\* _downsample, lines 82-88: the shape asked of cv2.resize
DownsampledHeight(height, downsampling_factor) == height \div downsampling_factor
DownsampledWidth(width, downsampling_factor) == width \div downsampling_factor

\* _downsample(image, downsampling_factor)
downsample(a, downsampling_factor) ==
    Resize(a, DownsampledHeight(a.h, downsampling_factor),
              DownsampledWidth(a.w, downsampling_factor))

\* _upsample with the destination size given as (height, width)
upsample_swapped(a, new_height, new_width) == Resize(a, new_width, new_height)

\* _upsample(image, new_height, new_width)
upsample(a, new_height, new_width) == Resize(a, new_height, new_width)

-----------------------------------------------------------------------------
(* MergedSuperpixelExtractor: __init__ and process, lines 168-215, 278-313 *)

\* the keyword arguments of __init__ that are explored, valid or not
Configs ==
    [nr_superpixels : {0, 3}, nr_pixels : {1, 2, 8}, max_nr_superpixels : {2, 5},
     dynamic_superpixels : BOOLEAN, threshold : {0 - 30, 30},
     downsampling_factor : 1..MaxFactor]

\* lines 203-204 without the cap
DynamicCount_uncapped(cfg, h, w) ==
    (cfg.nr_superpixels * (h * w)) \div cfg.nr_pixels

\* lines 203-204: min(int(nr_superpixels * (area / nr_pixels)), max_nr_superpixels)
DynamicCount(cfg, h, w) ==
    Min((cfg.nr_superpixels * (h * w)) \div cfg.nr_pixels, cfg.max_nr_superpixels)

\* lines 202-206: the n_segments passed to slic
RequestedSegments(cfg, h, w) ==
    IF cfg.dynamic_superpixels THEN DynamicCount(cfg, h, w) ELSE cfg.nr_superpixels

\* what slic(...) + 1 can return for an image of h rows and w columns
SlicMaps(h, w) ==
    {s \in [1..(h * w) -> 1..ScaleLabels] :
        ScanOrdered(s) /\ SegmentsConnected(s, h, w)}

\* lines 168-199 and 28-36: every argument is stored as it is
Construct(cfg) ==
    /\ proc.pc = "new"
    /\ config' = cfg
    /\ proc' = [proc EXCEPT !.pc = "constructed"]
    /\ UNCHANGED <<mergeVars, cacheVars, scale>>

\* lines 297-298: process(input_image) of an image of height x width pixels
StartProcess(height, width) ==
    /\ proc.pc = "constructed"
    /\ proc' = [proc EXCEPT !.pc = "downsample", !.height = height,
                            !.width = width, !.h = height, !.w = width]
    /\ UNCHANGED <<mergeVars, cacheVars, config, scale>>

\* lines 299-301
Downsample ==
    /\ proc.pc = "downsample"
    /\ \/ config.downsampling_factor = 1
       \/ ~ResizeFails(DownsampledHeight(proc.h, config.downsampling_factor),
                       DownsampledWidth(proc.w, config.downsampling_factor))
    /\ proc' = [proc EXCEPT
          !.pc = "count",
          !.h = IF config.downsampling_factor = 1 THEN proc.h
                ELSE DownsampledHeight(proc.h, config.downsampling_factor),
          !.w = IF config.downsampling_factor = 1 THEN proc.w
                ELSE DownsampledWidth(proc.w, config.downsampling_factor)]
    /\ UNCHANGED <<mergeVars, cacheVars, config, scale>>

\* lines 299-300: cv2.resize raises on an empty size
DownsampleFails ==
    /\ proc.pc = "downsample"
    /\ config.downsampling_factor # 1
    /\ ResizeFails(DownsampledHeight(proc.h, config.downsampling_factor),
                   DownsampledWidth(proc.w, config.downsampling_factor))
    /\ proc' = [proc EXCEPT !.pc = "raised", !.error = "cv2.error"]
    /\ UNCHANGED <<mergeVars, cacheVars, config, scale>>

\* lines 202-206: the segmentation step is entered
RequestSegments ==
    /\ proc.pc = "count"
    /\ proc' = [proc EXCEPT !.pc = "slic",
                            !.n_segments = RequestedSegments(config, proc.h, proc.w)]
    /\ UNCHANGED <<mergeVars, cacheVars, config, scale>>

\* lines 207-215: slic returns a label map of the image's shape
Slic ==
    /\ proc.pc = "slic"
    /\ \E s \in SlicMaps(proc.h, proc.w) :
          proc' = [proc EXCEPT !.pc = "merge", !.initial = Array(proc.h, proc.w, s)]
    /\ UNCHANGED <<mergeVars, cacheVars, config, scale>>

\* lines 207-213: slic raises
SlicFails ==
    /\ proc.pc = "slic"
    /\ proc' = [proc EXCEPT !.pc = "raised", !.error = "slic"]
    /\ UNCHANGED <<mergeVars, cacheVars, config, scale>>

\* lines 282-285: _merge_superpixels returns a map of the same shape, here
\* with nothing merged or everything merged
Merge ==
    /\ proc.pc = "merge"
    /\ \E m \in {proc.initial.data, [p \in DOMAIN proc.initial.data |-> 1]} :
          proc' = [proc EXCEPT !.pc = "upsample", !.merged = Array(proc.h, proc.w, m)]
    /\ UNCHANGED <<mergeVars, cacheVars, config, scale>>

\* lines 282-284: _merge_superpixels raises (the KeyError of line 411)
MergeFails ==
    /\ proc.pc = "merge"
    /\ proc' = [proc EXCEPT !.pc = "raised", !.error = "merge", !.initial = None]
    /\ UNCHANGED <<mergeVars, cacheVars, config, scale>>

\* lines 305-311 with initial_superpixels left as it is
Upsampled_merged_only(p, cfg) ==
    IF cfg.downsampling_factor = 1 THEN p
    ELSE [p EXCEPT !.merged = upsample(p.merged, p.height, p.width)]

\* lines 305-311: both maps are resized to the original height and width
Upsampled(p, cfg) ==
    IF cfg.downsampling_factor = 1 THEN p
    ELSE [p EXCEPT !.merged = upsample(p.merged, p.height, p.width),
                   !.initial = upsample(p.initial, p.height, p.width)]

\* lines 305-313
Upsample ==
    /\ proc.pc = "upsample"
    /\ proc' = [Upsampled(proc, config) EXCEPT !.pc = "returned"]
    /\ UNCHANGED <<mergeVars, cacheVars, config, scale>>

ProcessInit ==
    /\ input_image = [p \in 1..NPix |-> Palette[2]]
    /\ initial_superpixels = [p \in 1..NPix |-> 1]
    /\ tissue_mask = None
    /\ threshold = 30
    /\ connectivity = 2
    /\ pc = "start"
    /\ superpixels = None
    /\ nodes = <<>>
    /\ adj = <<>>
    /\ attrs = <<>>
    /\ weights = <<>>
    /\ edge_heap = <<>>
    /\ merged_superpixels = None
    /\ merges = <<>>
    /\ CacheIdle
    /\ ProcessIdle

ProcessNext ==
    \/ \E cfg \in Configs : Construct(cfg)
    \/ \E height \in 1..MaxSide, width \in 1..MaxSide : StartProcess(height, width)
    \/ Downsample
    \/ DownsampleFails
    \/ RequestSegments
    \/ Slic
    \/ SlicFails
    \/ Merge
    \/ MergeFails
    \/ Upsample

ProcessSpec == ProcessInit /\ [][ProcessNext]_vars

-----------------------------------------------------------------------------
(* Properties of __init__ and process *)

\* a negative merge threshold or a region count below one
OutOfRange(cfg) == cfg.threshold < 0 \/ cfg.nr_superpixels < 1

\* the segmentation step was entered
SegmentationReached ==
    \/ proc.pc \in {"slic", "merge", "upsample", "returned"}
    \/ proc.pc = "raised" /\ proc.error \in {"slic", "merge"}

\* C13: an extractor with an out-of-range configuration never reaches the
\* segmentation or merging step, neither in __init__ nor in process
C13_ConfigurationRejected ==
    (config # None /\ OutOfRange(config)) => ~SegmentationReached

HasShape(a, h, w) == a.h = h /\ a.w = w /\ Len(a.data) = h * w

\* the maps that process returns have the shape of its input image
ReturnsInputShape ==
    proc.pc = "returned" =>
        /\ HasShape(proc.merged, proc.height, proc.width)
        /\ HasShape(proc.initial, proc.height, proc.width)

C19_RegionCount ==
    SegmentationReached =>
        IF config.dynamic_superpixels
        THEN /\ proc.n_segments <= config.max_nr_superpixels
             /\ \/ proc.n_segments = config.max_nr_superpixels
                \/ proc.n_segments =
                     (config.nr_superpixels * proc.h * proc.w) \div config.nr_pixels
        ELSE proc.n_segments = config.nr_superpixels

\* a dynamic count that the cap cut down
C19_Witness ==
    /\ SegmentationReached
    /\ config.dynamic_superpixels
    /\ proc.n_segments = config.max_nr_superpixels
    /\ (config.nr_superpixels * proc.h * proc.w) \div config.nr_pixels
         > config.max_nr_superpixels

-----------------------------------------------------------------------------
(* Properties of the node statistics *)

\* the attributes _generate_graph gives a node n that holds, from the start,
\* every pixel of the filtered map whose label is in the set ls
DirectStatistics(n, ls) ==
    LET one == [p \in DOMAIN superpixels |->
                   IF superpixels[p] \in ls THEN n ELSE 0]
        acc == Accumulate([k \in {n} |-> [N |-> 0, x |-> Zero3, y |-> <<>>]],
                          one, input_image, 1)
    IN  Derived(<<n>>, acc[n].N, acc[n].x, acc[n].y)

\* C14: the mean vector and the three histograms stored in every alive node
\* are the ones _generate_graph computes when all the pixels of the node's
\* original regions are accumulated directly into one node, whichever nodes
\* were src and dst and in whatever order the merges were made
C14_StatisticsAssociativity ==
    GraphBuilt =>
        \A i \in DOMAIN nodes :
            \E d \in {DirectStatistics(nodes[i], Values(attrs[nodes[i]].labels))} :
                /\ attrs[nodes[i]].mean = d.mean
                /\ attrs[nodes[i]].r = d.r
                /\ attrs[nodes[i]].g = d.g
                /\ attrs[nodes[i]].b = d.b

\* a node made by two merges, of pixels of more than one colour
C14_Witness ==
    /\ Len(merges) = 2
    /\ \E i \in DOMAIN nodes :
          /\ Len(attrs[nodes[i]].labels) = 3
          /\ Cardinality(Values(attrs[nodes[i]].y)) > 1

-----------------------------------------------------------------------------
(* _upsample and _downsample applied to label maps *)

\* every label map of at most MaxSide rows and columns
ScaleMaps ==
    UNION {{Array(h, w, d) : d \in [1..(h * w) -> 1..ScaleLabels]} :
              h \in 1..MaxSide, w \in 1..MaxSide}

\* a label map, a target shape that is not smaller, a downsampling factor
ScaleInit ==
    /\ input_image = [p \in 1..NPix |-> Palette[2]]
    /\ initial_superpixels = [p \in 1..NPix |-> 1]
    /\ tissue_mask = None
    /\ threshold = 30
    /\ connectivity = 2
    /\ pc = "start"
    /\ superpixels = None
    /\ nodes = <<>>
    /\ adj = <<>>
    /\ attrs = <<>>
    /\ weights = <<>>
    /\ edge_heap = <<>>
    /\ merged_superpixels = None
    /\ merges = <<>>
    /\ CacheIdle
    /\ config = None
    /\ proc = [pc |-> "new", height |-> 0, width |-> 0, h |-> 0, w |-> 0,
               n_segments |-> None, merged |-> None, initial |-> None,
               error |-> None]
    /\ \E a \in ScaleMaps :
       \E nh \in a.h..(2 * MaxSide), nw \in a.w..(2 * MaxSide), f \in 1..MaxFactor :
          scale = [pc |-> "idle", image |-> a, factor |-> f, new_height |-> nh,
                   new_width |-> nw, out |-> None]

\* _upsample(image, new_height, new_width)
CallUpsample ==
    /\ scale.pc = "idle"
    /\ scale' = [scale EXCEPT !.pc = "upsampled",
                   !.out = upsample(scale.image, scale.new_height, scale.new_width)]
    /\ UNCHANGED <<mergeVars, cacheVars, config, proc>>

\* _upsample(_downsample(image, factor), H, W), H x W the shape of image
CallRoundTrip ==
    /\ scale.pc = "idle"
    /\ ~ResizeFails(DownsampledHeight(scale.image.h, scale.factor),
                    DownsampledWidth(scale.image.w, scale.factor))
    /\ scale' = [scale EXCEPT !.pc = "round trip",
                   !.out = upsample(downsample(scale.image, scale.factor),
                                    scale.image.h, scale.image.w)]
    /\ UNCHANGED <<mergeVars, cacheVars, config, proc>>

\* _downsample(image, factor) raises: cv2.resize of an empty size
CallRoundTripFails ==
    /\ scale.pc = "idle"
    /\ ResizeFails(DownsampledHeight(scale.image.h, scale.factor),
                   DownsampledWidth(scale.image.w, scale.factor))
    /\ scale' = [scale EXCEPT !.pc = "raised"]
    /\ UNCHANGED <<mergeVars, cacheVars, config, proc>>

ScaleNext ==
    \/ CallUpsample
    \/ CallRoundTrip
    \/ CallRoundTripFails

ScaleSpec == ScaleInit /\ [][ScaleNext]_vars

\* C16: _upsample to a height and width not smaller than the map's own
\* keeps the set of labels: every label of the input is in the output and
\* the output has no other label
C16_UpsamplePreservesLabels ==
    scale.pc = "upsampled" =>
        /\ Values(scale.out.data) = Values(scale.image.data)
        /\ HasShape(scale.out, scale.new_height, scale.new_width)

\* a 2 x 2 map of two labels upsampled to 3 x 4
C16_Witness ==
    /\ scale.pc = "upsampled"
    /\ HasShape(scale.image, 2, 2)
    /\ HasShape(scale.out, 3, 4)
    /\ Cardinality(Values(scale.image.data)) = 2

\* C17 as stated: _upsample(_downsample(map, f), H, W) has exactly the
\* labels of map
C17_RoundTripPreservesLabels ==
    scale.pc = "round trip" =>
        Values(scale.out.data) = Values(scale.image.data)

\* C17 amended: for 1 <= f <= min(H, W), _upsample(_downsample(map, f), H, W)
\* has the shape of map and no label that map does not have; with f = 1 it is
\* map itself; labels of map can be missing from it
C17_RoundTripAddsNoLabel ==
    scale.pc = "round trip" =>
        /\ HasShape(scale.out, scale.image.h, scale.image.w)
        /\ Values(scale.out.data) \subseteq Values(scale.image.data)
        /\ scale.factor = 1 => scale.out = scale.image

\* a round trip with factor 2 that lost a label
C17_Witness ==
    /\ scale.pc = "round trip"
    /\ scale.factor = 2
    /\ Values(scale.out.data) # Values(scale.image.data)

-----------------------------------------------------------------------------
(* _merge_superpixels on an image of two uniformly coloured halves *)

\* black, two stains, white
HalfColours == Values(Palette) \cup {<<255, 255, 255>>}

\* the top row in one colour, the bottom row in another
HalfImages ==
    {[p \in 1..NPix |-> IF Row(p, Width) = 0 THEN a ELSE b] :
        a \in HalfColours, b \in HalfColours} \ {[p \in 1..NPix |-> a] : a \in HalfColours}

\* initial superpixels that each lie inside one row
HalfLabelMaps ==
    {s \in LabelMaps :
        \A p, q \in 1..NPix : s[p] = s[q] => Row(p, Width) = Row(q, Width)}

\* no tissue mask, connectivity 2, threshold 0.2
HalvesInit ==
    /\ input_image \in HalfImages
    /\ initial_superpixels \in HalfLabelMaps
    /\ tissue_mask = None
    /\ threshold = 200
    /\ connectivity = 2
    /\ pc = "start"
    /\ superpixels = None
    /\ nodes = <<>>
    /\ adj = <<>>
    /\ attrs = <<>>
    /\ weights = <<>>
    /\ edge_heap = <<>>
    /\ merged_superpixels = None
    /\ merges = <<>>
    /\ CacheIdle
    /\ ProcessIdle

HalvesNext ==
    \/ FilterTissue
    \/ GenerateGraph
    \/ BuildHeap
    \/ MergeStep
    \/ PopInvalid
    \/ Finish

HalvesSpec == HalvesInit /\ [][HalvesNext]_vars

\* C18: two uniformly coloured halves of different colours, no tissue mask,
\* connectivity 2, threshold 0.2: the merged label map has exactly two labels,
\* one per half, and no pixel is 0
C18_TwoHalvesTwoRegions ==
    pc = "done" =>
        /\ Cardinality(Values(merged_superpixels)) = 2
        /\ 0 \notin Values(merged_superpixels)
        /\ \A p, q \in 1..NPix :
              merged_superpixels[p] = merged_superpixels[q]
                  <=> Row(p, Width) = Row(q, Width)

-----------------------------------------------------------------------------
(* merge_hierarchical on graphs of more than MaxLabels nodes *)

HeapLabels == MaxLabels + 1

\* black and one stain, pixel by pixel
HeapImages == [1..NPix -> {Palette[1], Palette[2]}]

\* what slic(...) + 1 can return with HeapLabels segments
HeapLabelMaps ==
    {s \in [1..NPix -> 1..HeapLabels] :
        /\ ScanOrdered(s)
        /\ SegmentsConnected(s, Height, Width)
        /\ Cardinality(Values(s)) = HeapLabels}

\* no tissue mask, connectivity 2, threshold 0.5
HeapInit ==
    /\ input_image \in HeapImages
    /\ initial_superpixels \in HeapLabelMaps
    /\ tissue_mask = None
    /\ threshold = 500
    /\ connectivity = 2
    /\ pc = "start"
    /\ superpixels = None
    /\ nodes = <<>>
    /\ adj = <<>>
    /\ attrs = <<>>
    /\ weights = <<>>
    /\ edge_heap = <<>>
    /\ merged_superpixels = None
    /\ merges = <<>>
    /\ CacheIdle
    /\ ProcessIdle

HeapNext ==
    \/ FilterTissue
    \/ GenerateGraph
    \/ BuildHeap
    \/ MergeStep
    \/ PopInvalid
    \/ Finish

HeapSpec == HeapInit /\ [][HeapNext]_vars

\* a step that merges the edge at the top of the heap
MergeHappens == Len(merges') = Len(merges) + 1

\* the merged edge is a valid heap item between two nodes of the graph and
\* carries the weight the graph holds for it
SelectedEdgeCurrent ==
    /\ edge_heap[1].valid
    /\ edge_heap[1].n1 \in Values(nodes)
    /\ edge_heap[1].n2 \in Values(nodes)
    /\ edge_heap[1].n2 \in Values(adj[edge_heap[1].n1])
    /\ Key(edge_heap[1].n1, edge_heap[1].n2) \in DOMAIN weights
    /\ weights[Key(edge_heap[1].n1, edge_heap[1].n2)] = edge_heap[1].wt

\* no edge of the graph has a smaller weight than the merged one
SelectedEdgeMinimal ==
    \A k \in DOMAIN weights : weights[k] = NaN \/ edge_heap[1].wt <= weights[k]

\* C20: every merge step merges an edge of the graph at its current weight,
\* that weight is the minimum over all edges of the graph and is below the
\* threshold; no stale item and no item with a removed endpoint is merged
C20_MergesGlobalMinimum ==
    [][MergeHappens =>
          /\ SelectedEdgeCurrent
          /\ FLt(edge_heap[1].wt, threshold)
          /\ SelectedEdgeMinimal]_vars

-----------------------------------------------------------------------------
(* merge_hierarchical: which of several edges of equal weight is merged *)

\* the position in g.edges() of the first edge of weight wt
EarliestOfWeight(es, wts, wt) ==
    CHOOSE i \in DOMAIN es :
        /\ wts[Key(es[i][1], es[i][2])] = wt
        /\ \A j \in 1..(i - 1) : wts[Key(es[j][1], es[j][2])] # wt

HeapOrdered == \A k \in DOMAIN edge_heap : edge_heap[k].wt # NaN

\* (n1, n2) of item a before (n1, n2) of item b
EndpointsLt(a, b) == a.n1 < b.n1 \/ (a.n1 = b.n1 /\ a.n2 < b.n2)

-----------------------------------------------------------------------------
(* the weight of an edge at graph construction and after a merge *)

\* C22: for every edge of the graph, the weight _generate_graph computes from
\* the statistics of its two endpoints equals the weight _weighting_function
\* computes from the same statistics
C22_OneWeightFormula ==
    GraphBuilt =>
        \A e \in DOMAIN weights :
            GraphWeight(attrs[e[1]], attrs[e[2]])
                = weighting_function(attrs, e[1], e[1], e[2])

-----------------------------------------------------------------------------
(* the histograms a node stores *)

\* the histogram of channel c of the samples y, divided by its own norm
UnitHistogram(y, c) ==
    Eager(Fixed(color_features_per_channel(Channel(y, c))), LAMBDA h :
        VecDiv(h, Norm(h)))

\* C23: for every alive node, after graph construction and after every merge,
\* r, g and b are the histograms of the node's samples of the red, green and
\* blue channel, each divided by its own L2 norm
C23_HistogramsPerChannel ==
    GraphBuilt =>
        \A i \in DOMAIN nodes :
            /\ attrs[nodes[i]].r = UnitHistogram(attrs[nodes[i]].y, 1)
            /\ attrs[nodes[i]].g = UnitHistogram(attrs[nodes[i]].y, 2)
            /\ attrs[nodes[i]].b = UnitHistogram(attrs[nodes[i]].y, 3)

-----------------------------------------------------------------------------
(* _color_features_per_channel *)

\* C24: the histogram _color_features_per_channel returns for a channel of a
\* node's samples has 8 bins, and every sample is counted in exactly one bin
C24_EightBins ==
    GraphBuilt =>
        \A i \in DOMAIN nodes : \A c \in 1..3 :
            \E hist \in {color_features_per_channel(Channel(attrs[nodes[i]].y, c))} :
                /\ Len(hist) = 8
                /\ SumSeq(hist) = Len(attrs[nodes[i]].y)

-----------------------------------------------------------------------------
(* the edges of the graph against the pixels of the regions *)

\* graphs of HeapLabels nodes under both connectivities, threshold 0.5
AdjacencyInit ==
    /\ input_image \in Images
    /\ initial_superpixels \in HeapLabelMaps
    /\ tissue_mask = None
    /\ threshold = 500
    /\ connectivity \in {1, 2}
    /\ pc = "start"
    /\ superpixels = None
    /\ nodes = <<>>
    /\ adj = <<>>
    /\ attrs = <<>>
    /\ weights = <<>>
    /\ edge_heap = <<>>
    /\ merged_superpixels = None
    /\ merges = <<>>
    /\ CacheIdle
    /\ ProcessIdle

AdjacencySpec == AdjacencyInit /\ [][HeapNext]_vars

\* the pixels a node owns: those of the initial labels merged into it
Owned(n) == {p \in DOMAIN superpixels : superpixels[p] \in Values(attrs[n].labels)}

\* pixels p and q are neighbours under connectivity conn
Adjacent(p, q, conn) ==
    LET dr == Row(p, Width) - Row(q, Width)
        dc == Col(p, Width) - Col(q, Width)
    IN  /\ p # q
        /\ dr \in {0 - 1, 0, 1}
        /\ dc \in {0 - 1, 0, 1}
        /\ conn = 1 => dr = 0 \/ dc = 0

\* two pixel sets share a boundary
Touch(P, Q, conn) == \E p \in P, q \in Q : Adjacent(p, q, conn)

-----------------------------------------------------------------------------
(* the graph after merge_nodes(src, dst) *)

\* the neighbours the merged node must have
ExpectedNeighbors(src, dst) ==
    (Values(adj[src]) \cup Values(adj[dst])) \ {src, dst}

\* C26: after merging src into dst, src is no node and no endpoint of an edge,
\* dst has no self-loop, the neighbours of dst are exactly the old neighbours
\* of src and of dst without src and dst, each once, and each of these edges
\* has the weight _weighting_function gives on the updated statistics of dst
C26_MergeRewiring ==
    [][MergeHappens =>
        \E src \in {edge_heap[1].n1}, dst \in {edge_heap[1].n2} :
            /\ src \notin Values(nodes')
            /\ dst \in Values(nodes')
            /\ adj'[src] = <<>>
            /\ \A n \in DOMAIN adj' : src \notin Values(adj'[n])
            /\ \A e \in DOMAIN weights' : e[1] # src /\ e[2] # src
            /\ dst \notin Values(adj'[dst])
            /\ Values(adj'[dst]) = ExpectedNeighbors(src, dst)
            /\ Len(adj'[dst]) = Cardinality(ExpectedNeighbors(src, dst))
            /\ \A n \in ExpectedNeighbors(src, dst) :
                  /\ dst \in Values(adj'[n])
                  /\ Key(dst, n) \in DOMAIN weights'
                  /\ weights'[Key(dst, n)] = weighting_function(attrs', src, dst, n)
            /\ attrs'[dst].N = attrs[src].N + attrs[dst].N]_vars

\* the first merge gave dst two neighbours: one that src and dst both had,
\* one that only src had
C26_Witness ==
    /\ Len(merges) = 1
    /\ \E n, k \in Values(adj[merges[1].dst]) :
          /\ n # k
          /\ Touch({p \in DOMAIN superpixels : superpixels[p] = merges[1].src},
                   Owned(n), connectivity)
          /\ Touch({p \in DOMAIN superpixels : superpixels[p] = merges[1].dst},
                   Owned(n), connectivity)
          /\ Touch({p \in DOMAIN superpixels : superpixels[p] = merges[1].src},
                   Owned(k), connectivity)
          /\ ~Touch({p \in DOMAIN superpixels : superpixels[p] = merges[1].dst},
                    Owned(k), connectivity)

-----------------------------------------------------------------------------
(* the pixel count of a node *)

\* C27: from graph construction to the end of merging every alive node has a
\* pixel count N >= 1: N is the number of pixels the node owns, and the node
\* owns at least one
C27_NoDegenerateRegion ==
    GraphBuilt =>
        \A i \in DOMAIN nodes :
            /\ attrs[nodes[i]].N >= 1
            /\ attrs[nodes[i]].N = Cardinality(Owned(nodes[i]))
            /\ attrs[nodes[i]].N = Len(attrs[nodes[i]].y)

\* a tissue mask removed pixels and a merge happened
C27_Witness ==
    /\ GraphBuilt
    /\ 0 \in Values(superpixels)
    /\ Len(merges) >= 1

-----------------------------------------------------------------------------
(* the merged label map against the filtered initial one *)

\* the initial labels joined to the labels of S by the merge steps so far
RECURSIVE JoinedTo(_)
JoinedTo(S) ==
    LET more == S \cup {merges[k].src : k \in {j \in DOMAIN merges : merges[j].dst \in S}}
                  \cup {merges[k].dst : k \in {j \in DOMAIN merges : merges[j].src \in S}}
    IN  IF more = S THEN S ELSE JoinedTo(more)

\* C28: the merged partition is a coarsening of the filtered initial one: two
\* pixels of the same non-zero initial label get the same merged label, and
\* two pixels get the same non-zero merged label only if their initial labels
\* were joined by a chain of merge steps
C28_Coarsening ==
    pc = "done" =>
        \A p, q \in DOMAIN superpixels :
            /\ superpixels[p] # 0 /\ superpixels[p] = superpixels[q]
                  => merged_superpixels[p] = merged_superpixels[q]
            /\ merged_superpixels[p] # 0 /\ merged_superpixels[p] = merged_superpixels[q]
                  => superpixels[q] \in JoinedTo({superpixels[p]})
            /\ superpixels[p] = 0 <=> merged_superpixels[p] = 0

\* a merge happened and two regions are left
C28_Witness ==
    /\ pc = "done"
    /\ Len(merges) >= 1
    /\ Cardinality(Values(merged_superpixels) \ {0}) >= 2

-----------------------------------------------------------------------------
(* the weight of an edge between two regions of one colour *)

\* C29: an edge between two regions whose pixels all have the same single
\* colour has weight exactly 0, at graph construction and after a merge,
\* whatever the pixel counts of the two regions are
C29_SameColourZeroWeight ==
    GraphBuilt =>
        \A e \in DOMAIN weights :
            Cardinality(Values(attrs[e[1]].y) \cup Values(attrs[e[2]].y)) = 1
                => weights[e] = 0

-----------------------------------------------------------------------------
(* the region count of dynamic mode on small images *)

\* C30: in dynamic mode, with a configuration in range (nr_superpixels >= 1),
\* the region count asked of the segmenter is at least 1 for every image that
\* is not empty, however few pixels it has compared with nr_pixels
C30_DynamicCountPositive ==
    (/\ SegmentationReached
     /\ config.dynamic_superpixels
     /\ ~OutOfRange(config)
     /\ proc.h * proc.w >= 1) => proc.n_segments >= 1

=============================================================================
